---- MODULE Spec2Model ----
(***************************************************************************)
(* Model of gitlab_course_manager/manager.py: the batch operations         *)
(* connect, make_student_groups, post_assignment and patch_assignment,     *)
(* driven one after the other against a GitLab instance and a git remote.  *)
(*                                                                         *)
(* Strings that the code concatenates or rewrites (names, slugs) are       *)
(* sequences of one-character strings.  Settings keys, usernames and       *)
(* project paths are only compared for equality and stay strings.          *)
(* A git object id is modelled by the content it hashes: two commits have  *)
(* the same id exactly when tree, parents, author, committer, time and     *)
(* message agree.                                                          *)
(*                                                                         *)
(* The platform and the git remote are the environment: a creation call,   *)
(* a clone or a push either succeeds or raises, and at most MaxFaults of   *)
(* them raise in one behaviour.  The platform accepts every creation       *)
(* request that does not raise, a repeated one included.                   *)
(***************************************************************************)
EXTENDS Integers, Sequences, FiniteSets, TLC

\* ---------------------------------------------------------------- bounds
MaxRoster    == 2   \* longest roster
MaxConnects  == 1   \* calls of connect in one behaviour
MaxGroupRuns == 1   \* calls of make_student_groups
MaxPostRuns  == 2   \* calls of post_assignment
MaxPatchRuns == 2   \* calls of patch_assignment
MaxFaults    == 1   \* platform or transport errors in one behaviour
MaxClock     == 1   \* last value of the wall clock (seconds)

\* ------------------------------------------------------------ settings
AuthKeys   == {"url", "pa_token", "ssh_path", "ssh_type"}
GroupsKeys == {"student_group_id", "template_group_id"}
CourseKeys == {"roster"}
GraderKeys == {"runner_id"}

Sections == {"auth", "groups", "course", "grader"}

SectionKeys(s) ==
  IF s = "auth" THEN AuthKeys
  ELSE IF s = "groups" THEN GroupsKeys
  ELSE IF s = "course" THEN CourseKeys
  ELSE GraderKeys

\* A settings file: the sections it has and, per section, the keys it has.
FullSettings == [sec \in Sections |-> SectionKeys(sec)]

\* The settings files of the model: complete, one section missing, or one
\* key of one section missing.
SettingsFiles ==
  {[sections |-> Sections, keys |-> FullSettings]}
  \cup {[sections |-> Sections \ {s}, keys |-> FullSettings] : s \in Sections}
  \cup UNION {{[sections |-> Sections,
                keys |-> [FullSettings EXCEPT ![s] = @ \ {k}]]
               : k \in SectionKeys(s)} : s \in Sections}

NoErr == [type |-> "none", about |-> <<>>]

ValueError(s, k)   == [type |-> "ValueError", about |-> <<s, k>>]
NameError(n)       == [type |-> "NameError", about |-> <<n>>]
GroupNotFound(n)   == [type |-> "RuntimeError:group", about |-> n]
ProjectNotFound(n) == [type |-> "RuntimeError:project", about |-> n]
TemplateNotFound(p) == [type |-> "RuntimeError:template", about |-> <<p>>]
PlatformError(c)   == [type |-> "GitlabError", about |-> <<c>>]
GitError(c)        == [type |-> "GitError", about |-> <<c>>]

\* _check_config_section_exists, then _check_config_key_exists for the
\* keys in the order the accessor checks them; the first failure is raised.
RECURSIVE FirstMissing(_, _, _)
FirstMissing(c, s, ks) ==
  IF ks = <<>> THEN NoErr
  ELSE IF Head(ks) \notin c.keys[s] THEN ValueError(s, Head(ks))
  ELSE FirstMissing(c, s, Tail(ks))

CheckSection(c, s, ks) ==
  IF s \notin c.sections THEN ValueError(s, "") ELSE FirstMissing(c, s, ks)

_get_auth_info(c)   == CheckSection(c, "auth", <<"url", "pa_token", "ssh_path", "ssh_type">>)
_get_groups_info(c) == CheckSection(c, "groups", <<"student_group_id", "template_group_id">>)
_get_course_info(c) == CheckSection(c, "course", <<"roster">>)
_get_grader_info(c) == CheckSection(c, "grader", <<"runner_id">>)

\* -------------------------------------------------------------- roster
Row(f, l, u) == [first |-> f, last |-> l, username |-> u]

StudentPool ==
  { Row(<<"A">>, <<"L">>, "al"),
    Row(<<"A">>, <<"L", "2">>, "al2"),
    Row(<<"B", " ", "C">>, <<"D">>, "bcd"),
    Row(<<"B">>, <<"C", " ", "D">>, "bd") }

\* Usernames that exist on the platform.
PlatformUsers == {"al", "al2", "bd"}

_get_student_groupname(s) == s.first \o <<" ">> \o s.last

Lower(ch) ==
  IF ch = "A" THEN "a" ELSE IF ch = "B" THEN "b" ELSE IF ch = "C" THEN "c"
  ELSE IF ch = "D" THEN "d" ELSE IF ch = "L" THEN "l" ELSE ch

\* f"{first}-{last}".replace(' ', '-').lower()
_get_student_grouppath(s) ==
  LET raw == s.first \o <<"-">> \o s.last
  IN  [i \in 1..Len(raw) |-> Lower(IF raw[i] = " " THEN "-" ELSE raw[i])]

\* Rosters: the rows of one course have pairwise different slugs (two rows
\* with the same derived name have the same slug, so names differ as well).
RECURSIVE SeqsUpTo(_, _)
SeqsUpTo(S, n) ==
  IF n = 0 THEN {<<>>}
  ELSE LET shorter == SeqsUpTo(S, n - 1)
       IN  shorter \cup {Append(q, e) : q \in {r \in shorter : Len(r) = n - 1}, e \in S}

Rosters ==
  { r \in SeqsUpTo(StudentPool, MaxRoster) :
      /\ Len(r) >= 1
      /\ \A i, j \in 1..Len(r) :
           i # j => _get_student_grouppath(r[i]) # _get_student_grouppath(r[j]) }

\* ------------------------------------------------------------ platform
StudentGroupId   == 100     \* [groups] student_group_id
DeveloperAccess  == 30      \* gitlab.const.DEVELOPER_ACCESS
MaintainerAccess == 40      \* gitlab.const.MAINTAINER_ACCESS
AccessLevels == {DeveloperAccess, MaintainerAccess}

\* Paths listed in the template group, and the paths an operator may name.
TemplateListing == {"hw1"}
TemplatePaths   == {"hw1", "hw9"}
TemplateTree(p) == "T1"

\* The patch file: a diff from one tree to another.
Patches == {[from |-> "T1", to |-> "T1p"]}

\* git.Signature("Connor Fuhrman", "connorfuhrman@email.arizona.edu")
_get_git_commit_signature == <<"Connor Fuhrman", "connorfuhrman@email.arizona.edu">>

NoGit == [present |-> FALSE, origin |-> 0, commits |-> <<>>]
NoDir == [exists |-> FALSE, files |-> "", git |-> NoGit]

VARIABLES
  settings,      \* the settings file
  roster,        \* the roster file, a sequence of rows
  subgroups,     \* subgroups of the top-level student group, in listing order
  projects,      \* student projects, in creation order
  fn,            \* entry point that is running or ran last
  pc,            \* position inside it
  idx,           \* roster index of the loop
  err,           \* exception that ended the entry point
  calls,         \* platform and git-remote calls made by this entry point
  tmp,           \* the scratch directory
  listing,       \* student_subgroups as listed by post_assignment
  cur,           \* project (post, patch) or group (make_student_groups) at hand
  args,          \* arguments of the entry point
  outcome,       \* patch_assignment: result per attempted roster index
  reported,      \* patch_assignment: roster indices logged as failed
  now,           \* wall clock
  runs,          \* calls made so far, per entry point
  okRuns,        \* calls that returned normally, per entry point
  gl,            \* connect returned an authenticated client
  before,        \* the projects when the entry point was called
  faults         \* platform and transport errors so far

vars == <<settings, roster, subgroups, projects, fn, pc, idx, err, calls,
          tmp, listing, cur, args, outcome, reported, now, runs, okRuns, gl,
          before, faults>>

EntryPoints == {"connect", "make_student_groups", "post_assignment", "patch_assignment"}

MaxRuns(f) ==
  IF f = "connect" THEN MaxConnects
  ELSE IF f = "make_student_groups" THEN MaxGroupRuns
  ELSE IF f = "post_assignment" THEN MaxPostRuns
  ELSE MaxPatchRuns

NoArgs == [path |-> "", patch |-> [from |-> "", to |-> ""], access |-> 0]

Init ==
  /\ settings \in SettingsFiles
  /\ roster \in Rosters
  /\ subgroups = <<>>
  /\ projects = <<>>
  /\ fn = "none"
  /\ pc = "done"
  /\ idx = 0
  /\ err = NoErr
  /\ calls = <<>>
  /\ tmp = NoDir
  /\ listing = <<>>
  /\ cur = 0
  /\ args = NoArgs
  /\ outcome = <<>>
  /\ reported = {}
  /\ now = 0
  /\ runs = [f \in EntryPoints |-> 0]
  /\ okRuns = [f \in EntryPoints |-> 0]
  /\ gl = FALSE
  /\ before = <<>>
  /\ faults = 0

\* An entry point is called when none is running; all but connect take the
\* client that connect returned.
CanStart(f) == pc = "done" /\ runs[f] < MaxRuns(f) /\ (f = "connect" \/ gl)

\* A platform or transport call may fail.
MayFail == faults < MaxFaults

\* State of a fresh call of entry point f with arguments a.
Fresh(f, a) ==
  /\ fn' = f
  /\ args' = a
  /\ runs' = [runs EXCEPT ![f] = @ + 1]
  /\ outcome' = <<>>
  /\ reported' = {}
  /\ listing' = <<>>
  /\ cur' = 0
  /\ before' = projects

\* One call to the platform or to the git remote, as the code issues it.
Call(c, retry) == [call |-> c, retry |-> retry]

\* Variant: the scope is left without deleting the directory.
ExitScope_leak(d) == d

\* TemporaryDirectory.__exit__: the directory is deleted.
ExitScope(d) == NoDir

\* The entry point ends with exception e (NoErr: it returns).
FinishAs(f, e) ==
  /\ pc' = "done"
  /\ err' = e
  /\ okRuns' = IF e = NoErr THEN [okRuns EXCEPT ![f] = @ + 1] ELSE okRuns

Finish(e) == FinishAs(fn, e)

\* The entry point goes on at position p.
Goto(p) == pc' = p /\ err' = NoErr /\ UNCHANGED okRuns

\* ------------------------------------------------------------- connect
connect ==
  /\ CanStart("connect")
  /\ Fresh("connect", NoArgs)
  /\ idx' = 0
  /\ LET e == _get_auth_info(settings)
     IN  IF e # NoErr
         THEN Finish(e) /\ calls' = <<>> /\ UNCHANGED <<faults, gl>>
         ELSE \* gl.auth()
              /\ calls' = <<Call("auth", FALSE)>>
              /\ \/ FinishAs("connect", NoErr) /\ gl' = TRUE /\ UNCHANGED faults
                 \/ /\ MayFail /\ faults' = faults + 1
                    /\ Finish(PlatformError("auth"))
                    /\ UNCHANGED gl
  /\ UNCHANGED <<settings, roster, subgroups, projects, tmp, now>>

\* ------------------------------------------------- make_student_groups
\* Lines 233-235: the access-level warning and the roster read.
make_student_groups(access) ==
  /\ CanStart("make_student_groups")
  /\ Fresh("make_student_groups", [NoArgs EXCEPT !.access = access])
  /\ calls' = <<>>
  /\ LET e == _get_course_info(settings)
     IN  IF e # NoErr
         THEN Finish(e) /\ idx' = 0
         ELSE Goto("msg_group") /\ idx' = 1
  /\ UNCHANGED <<settings, roster, subgroups, projects, tmp, now, faults, gl>>

NewGroup(s) ==
  [id |-> Len(subgroups) + 1,
   name |-> _get_student_groupname(s),
   visibility |-> "private",
   path |-> _get_student_grouppath(s),
   parent_id |-> StudentGroupId,
   members |-> {}]

\* Lines 237-245: gl.groups.create(group_to_create, retry_transient_errors = True)
msg_create_group ==
  /\ pc = "msg_group"
  /\ LET e == _get_groups_info(settings)
     IN  IF e # NoErr
         THEN Finish(e) /\ UNCHANGED <<calls, subgroups, cur, faults>>
         ELSE /\ calls' = Append(calls, Call("groups.create", TRUE))
              /\ \/ /\ MayFail /\ faults' = faults + 1
                    /\ Finish(PlatformError("groups.create"))
                    /\ UNCHANGED <<subgroups, cur>>
                 \/ /\ subgroups' = Append(subgroups, NewGroup(roster[idx]))
                    /\ cur' = Len(subgroups) + 1
                    /\ Goto("msg_member")
                    /\ UNCHANGED <<faults>>
  /\ UNCHANGED <<settings, roster, gl, before, projects, fn, idx, tmp, listing, args,
                 outcome, reported, now, runs>>

\* _get_student_user_id: the exact username among the search results.  The
\* message of the 'not found' ValueError reads the undefined name s.
_get_student_user_id(s) ==
  IF s.username \in PlatformUsers THEN NoErr ELSE NameError("s")

\* Lines 246-252: group.members.create(member_to_add, retry_transient_errors = True)
msg_add_member ==
  /\ pc = "msg_member"
  /\ LET s == roster[idx]
         e == _get_student_user_id(s)
         member == [username |-> s.username, access_level |-> args.access]
     IN  IF e # NoErr
         THEN /\ calls' = Append(calls, Call("users.list", FALSE))
              /\ Finish(e)
              /\ UNCHANGED <<subgroups, idx, faults>>
         ELSE /\ calls' = calls \o <<Call("users.list", FALSE), Call("members.create", TRUE)>>
              /\ \/ /\ MayFail /\ faults' = faults + 1
                    /\ Finish(PlatformError("members.create"))
                    /\ UNCHANGED <<subgroups, idx>>
                 \/ /\ subgroups' = [subgroups EXCEPT ![cur].members = @ \cup {member}]
                    /\ idx' = idx + 1
                    /\ UNCHANGED faults
                    /\ IF idx = Len(roster) THEN Finish(NoErr)
                       ELSE Goto("msg_group")
  /\ UNCHANGED <<settings, roster, gl, before, projects, fn, tmp, listing, cur, args,
                 outcome, reported, now, runs>>

\* ----------------------------------------------------- git and lookups
RunnerId == 7               \* [grader] runner_id
TemplateUrl == 0            \* ssh url of the template project

\* repo.create_commit(ref, author, committer, message, tree, parents)
Commit(tree, parents, author, committer, t, msg) ==
  [tree |-> tree, parents |-> parents, author |-> author,
   committer |-> committer, time |-> t, message |-> msg]

\* The object id of a commit hashes all of its content.
Oid(c) == c

\* The template repository as cloned: its working tree and its history.
TemplateRepo(p) ==
  [present |-> TRUE, origin |-> TemplateUrl,
   commits |-> <<Commit(TemplateTree(p), <<>>, <<"instructor">>, <<"instructor">>, 0,
                        <<"template">>)>>]

\* The readings the clock can give next.
Ticks == {t \in {now, now + 1} : t <= MaxClock}

IsPrefix(a, b) == Len(a) <= Len(b) /\ SubSeq(b, 1, Len(a)) = a

\* Variant: g.name.startswith(name) in place of g.name == name.
RECURSIVE FindGroupFrom_prefix(_, _, _)
FindGroupFrom_prefix(groups, name, i) ==
  IF i > Len(groups) THEN 0
  ELSE IF IsPrefix(name, groups[i].name) THEN groups[i].id
  ELSE FindGroupFrom_prefix(groups, name, i + 1)

\* for g in groups: if g.name == name: id = g.id; break   (0: no match)
RECURSIVE FindGroupFrom(_, _, _)
FindGroupFrom(groups, name, i) ==
  IF i > Len(groups) THEN 0
  ELSE IF groups[i].name = name THEN groups[i].id
  ELSE FindGroupFrom(groups, name, i + 1)

FindGroup(groups, name) == FindGroupFrom(groups, name, 1)

\* [i.path for i in projs].index(path) over the projects of group gid
\* (0: ValueError, no such path)
RECURSIVE FindProjectFrom(_, _, _)
FindProjectFrom(gid, path, i) ==
  IF i > Len(projects) THEN 0
  ELSE IF projects[i].namespace_id = gid /\ projects[i].path = path THEN projects[i].id
  ELSE FindProjectFrom(gid, path, i + 1)

FindProject(gid, path) == FindProjectFrom(gid, path, 1)

\* ----------------------------------------------------- post_assignment
\* Lines 302-316: roster, template lookup, scratch directory.  The handler of
\* the failed lookup formats its log message with the undefined name
\* template_group_id before it reaches its raise statement.
TemplateLookupError(path) == NameError("template_group_id")

post_assignment(path) ==
  /\ CanStart("post_assignment")
  /\ Fresh("post_assignment", [NoArgs EXCEPT !.path = path])
  /\ idx' = 0
  /\ LET e1 == _get_course_info(settings)
         e2 == _get_groups_info(settings)
     IN  IF e1 # NoErr THEN Finish(e1) /\ calls' = <<>> /\ UNCHANGED tmp
         ELSE IF e2 # NoErr THEN Finish(e2) /\ calls' = <<>> /\ UNCHANGED tmp
         ELSE IF path \notin TemplateListing
         THEN /\ calls' = <<Call("projects.list", FALSE)>>
              /\ Finish(TemplateLookupError(path))
              /\ UNCHANGED tmp
         ELSE /\ calls' = <<Call("projects.list", FALSE), Call("projects.get", FALSE)>>
              /\ tmp' = [exists |-> TRUE, files |-> "", git |-> NoGit]
              /\ Goto("post_clone")
  /\ UNCHANGED <<settings, roster, subgroups, projects, now, faults, gl>>

\* Lines 318-324: clone the template, list the student subgroups once.
post_clone ==
  /\ pc = "post_clone"
  /\ LET e == _get_auth_info(settings)
         e2 == _get_groups_info(settings)
     IN  IF e # NoErr
         THEN Finish(e) /\ tmp' = ExitScope(tmp) /\ UNCHANGED <<calls, listing, idx, faults>>
         ELSE \/ /\ MayFail /\ faults' = faults + 1
                 /\ calls' = Append(calls, Call("clone", FALSE))
                 /\ Finish(GitError("clone"))
                 /\ tmp' = ExitScope(tmp)
                 /\ UNCHANGED <<listing, idx>>
              \/ /\ UNCHANGED faults
                 /\ IF e2 # NoErr
                    THEN /\ calls' = Append(calls, Call("clone", FALSE))
                         /\ Finish(e2)
                         /\ tmp' = ExitScope(tmp)
                         /\ UNCHANGED <<listing, idx>>
                    ELSE /\ calls' = calls \o <<Call("clone", FALSE), Call("subgroups.list", FALSE)>>
                         /\ tmp' = [exists |-> TRUE, files |-> TemplateTree(args.path),
                                    git |-> TemplateRepo(args.path)]
                         /\ listing' = subgroups
                         /\ idx' = 1
                         /\ Goto("post_create")
  /\ UNCHANGED <<settings, roster, gl, before, subgroups, projects, fn, cur, args, outcome,
                 reported, now, runs>>

NewProject(name, gid) ==
  [id |-> Len(projects) + 1, namespace_id |-> gid, name |-> name, path |-> name,
   runners |-> {}, commits |-> <<>>]

\* The retry option of the two creation calls of create_student_assignment.
ProjectCreateRetry == FALSE
RunnerCreateRetry  == FALSE

\* Variant: a project of that path already in the student's group is reused.
post_create_dedup ==
  /\ pc = "post_create"
  /\ LET group_name == _get_student_groupname(roster[idx])
         gid == FindGroup(listing, group_name)
         old == FindProject(gid, args.path)
     IN  IF gid = 0
         THEN /\ Finish(GroupNotFound(group_name))
              /\ tmp' = ExitScope(tmp)
              /\ UNCHANGED <<calls, projects, cur, faults>>
         ELSE IF old # 0
         THEN /\ calls' = Append(calls, Call("groups.get", FALSE))
              /\ cur' = old
              /\ Goto("post_runner")
              /\ UNCHANGED <<projects, tmp, faults>>
         ELSE /\ calls' = calls \o <<Call("groups.get", FALSE),
                                    Call("projects.create", FALSE)>>
              /\ \/ /\ MayFail /\ faults' = faults + 1
                    /\ Finish(PlatformError("projects.create"))
                    /\ tmp' = ExitScope(tmp)
                    /\ UNCHANGED <<projects, cur>>
                 \/ /\ projects' = Append(projects, NewProject(args.path, gid))
                    /\ cur' = Len(projects) + 1
                    /\ Goto("post_runner")
                    /\ UNCHANGED <<tmp, faults>>
  /\ UNCHANGED <<settings, roster, gl, before, subgroups, fn, idx, listing, args, outcome,
                 reported, now, runs>>

\* create_student_assignment, lines 261-276: the student's group among the
\* listed subgroups, then gl.projects.create(proj_to_create).
post_create ==
  /\ pc = "post_create"
  /\ LET group_name == _get_student_groupname(roster[idx])
         gid == FindGroup(listing, group_name)
     IN  IF gid = 0
         THEN /\ Finish(GroupNotFound(group_name))
              /\ tmp' = ExitScope(tmp)
              /\ UNCHANGED <<calls, projects, cur, faults>>
         ELSE /\ calls' = calls \o <<Call("groups.get", FALSE),
                                    Call("projects.create", ProjectCreateRetry)>>
              /\ \/ /\ MayFail /\ faults' = faults + 1
                    /\ Finish(PlatformError("projects.create"))
                    /\ tmp' = ExitScope(tmp)
                    /\ UNCHANGED <<projects, cur>>
                 \/ /\ projects' = Append(projects, NewProject(args.path, gid))
                    /\ cur' = Len(projects) + 1
                    /\ Goto("post_runner")
                    /\ UNCHANGED <<tmp, faults>>
  /\ UNCHANGED <<settings, roster, gl, before, subgroups, fn, idx, listing, args, outcome,
                 reported, now, runs>>

\* Variant: a commit message that does not name the student.
InitialMessage_nostudent(proj_name, group_name) == <<"Initial commit", proj_name>>

\* f"Initial commit for assignment '{proj_name}' for student {group_name}"
InitialMessage(proj_name, group_name) == <<"Initial commit", proj_name, group_name>>

\* Variant: .git is kept, the commit lands on the history already there.
Reinit_keep(d, url, proj_name, group_name, t) ==
  [d EXCEPT !.git.commits =
     Append(@, Commit(d.files, <<Oid(d.git.commits[Len(d.git.commits)])>>,
                      _get_git_commit_signature, _get_git_commit_signature, t,
                      InitialMessage(proj_name, group_name)))]

\* Lines 282-288: drop .git, git.init_repository(origin_url = the new
\* project), stage everything, create the root commit.
Reinit(d, url, proj_name, group_name, t) ==
  [d EXCEPT !.git =
     [present |-> TRUE, origin |-> url,
      commits |-> <<Commit(d.files, <<>>, _get_git_commit_signature,
                           _get_git_commit_signature, t,
                           InitialMessage(proj_name, group_name))>>]]

\* Lines 278-288: attach the runner, then re-initialise and commit locally.
post_runner ==
  /\ pc = "post_runner"
  /\ LET e == _get_grader_info(settings)
     IN  IF e # NoErr
         THEN /\ Finish(e)
              /\ tmp' = ExitScope(tmp)
              /\ UNCHANGED <<calls, projects, now, faults>>
         ELSE /\ calls' = Append(calls, Call("runners.create", RunnerCreateRetry))
              /\ \/ /\ MayFail /\ faults' = faults + 1
                    /\ Finish(PlatformError("runners.create"))
                    /\ tmp' = ExitScope(tmp)
                    /\ UNCHANGED <<projects, now>>
                 \/ /\ projects' = [projects EXCEPT ![cur].runners = @ \cup {RunnerId}]
                    /\ \E t \in Ticks :
                         /\ now' = t
                         /\ tmp' = Reinit(tmp, cur, args.path,
                                          _get_student_groupname(roster[idx]), t)
                    /\ Goto("post_push")
                    /\ UNCHANGED <<faults>>
  /\ UNCHANGED <<settings, roster, gl, before, subgroups, fn, idx, listing, cur, args,
                 outcome, reported, runs>>

\* remote.push([ref.name]): the branch of the remote becomes the local one.
Push(projs, d) == [projs EXCEPT ![d.git.origin].commits = d.git.commits]

\* Variant: a failed push is swallowed and the loop goes on with the next
\* student.
post_push_continue ==
  /\ pc = "post_push"
  /\ LET e == _get_auth_info(settings)
     IN  IF e # NoErr
         THEN /\ Finish(e)
              /\ tmp' = ExitScope(tmp)
              /\ UNCHANGED <<calls, projects, idx, faults>>
         ELSE /\ calls' = Append(calls, Call("push", FALSE))
              /\ \/ /\ MayFail /\ faults' = faults + 1
                    /\ UNCHANGED projects
                    /\ idx' = idx + 1
                    /\ IF idx = Len(roster)
                       THEN Finish(GitError("push")) /\ tmp' = ExitScope(tmp)
                       ELSE Goto("post_create") /\ UNCHANGED tmp
                 \/ /\ projects' = Push(projects, tmp)
                    /\ idx' = idx + 1
                    /\ UNCHANGED faults
                    /\ IF idx = Len(roster)
                       THEN Finish(NoErr) /\ tmp' = ExitScope(tmp)
                       ELSE Goto("post_create") /\ UNCHANGED tmp
  /\ UNCHANGED <<settings, roster, gl, before, subgroups, fn, listing, cur, args, outcome,
                 reported, now, runs>>

\* Lines 289-291 and the loop of line 325.
post_push ==
  /\ pc = "post_push"
  /\ LET e == _get_auth_info(settings)
     IN  IF e # NoErr
         THEN /\ Finish(e)
              /\ tmp' = ExitScope(tmp)
              /\ UNCHANGED <<calls, projects, idx, faults>>
         ELSE /\ calls' = Append(calls, Call("push", FALSE))
              /\ \/ /\ MayFail /\ faults' = faults + 1
                    /\ Finish(GitError("push"))
                    /\ tmp' = ExitScope(tmp)
                    /\ UNCHANGED <<projects, idx>>
                 \/ /\ projects' = Push(projects, tmp)
                    /\ idx' = idx + 1
                    /\ UNCHANGED faults
                    /\ IF idx = Len(roster)
                       THEN Finish(NoErr) /\ tmp' = ExitScope(tmp)
                       ELSE Goto("post_create") /\ UNCHANGED tmp
  /\ UNCHANGED <<settings, roster, gl, before, subgroups, fn, listing, cur, args, outcome,
                 reported, now, runs>>

\* ---------------------------------------------------- patch_assignment
\* Line 367: the roster read; the loop of line 368 starts.
patch_assignment(path, patch) ==
  /\ CanStart("patch_assignment")
  /\ Fresh("patch_assignment", [NoArgs EXCEPT !.path = path, !.patch = patch])
  /\ calls' = <<>>
  /\ LET e == _get_course_info(settings)
     IN  IF e # NoErr
         THEN Finish(e) /\ idx' = 0
         ELSE Goto("patch_lookup") /\ idx' = 1
  /\ UNCHANGED <<settings, roster, subgroups, projects, tmp, now, faults, gl>>

\* What patch_assignment does with an exception of apply_patch_to_assignment:
\* there is no handler in its loop, the exception ends the batch.
PatchRaise(e) == Finish(e) /\ UNCHANGED <<idx, outcome, reported>>

\* Variant: the loop stops at the first student whose patch failed.
PatchReturn_stop(ok) ==
  /\ outcome' = Append(outcome, ok)
  /\ reported' = IF ok THEN reported ELSE reported \cup {idx}
  /\ idx' = idx + 1
  /\ IF idx = Len(roster) \/ ~ok THEN Finish(NoErr) ELSE Goto("patch_lookup")

\* Line 368-370: apply_patch_to_assignment returned ok for roster[idx]; a
\* False is logged at once, and the loop goes on.
PatchReturn(ok) ==
  /\ outcome' = Append(outcome, ok)
  /\ reported' = IF ok THEN reported ELSE reported \cup {idx}
  /\ idx' = idx + 1
  /\ IF idx = Len(roster) THEN Finish(NoErr) ELSE Goto("patch_lookup")

\* apply_patch_to_assignment, lines 332-341: the student's group, the
\* project of that path in it, and a scratch directory.
patch_lookup ==
  /\ pc = "patch_lookup"
  /\ LET e == _get_groups_info(settings)
         group_name == _get_student_groupname(roster[idx])
         gid == FindGroup(subgroups, group_name)
         pid == FindProject(gid, args.path)
     IN  IF e # NoErr
         THEN PatchRaise(e) /\ UNCHANGED <<calls, tmp, cur>>
         ELSE IF gid = 0
         THEN /\ calls' = Append(calls, Call("subgroups.list", FALSE))
              /\ PatchRaise(GroupNotFound(group_name))
              /\ UNCHANGED <<tmp, cur>>
         ELSE IF pid = 0
         THEN /\ calls' = calls \o <<Call("subgroups.list", FALSE), Call("groups.get", FALSE),
                                    Call("projects.list", FALSE)>>
              /\ PatchRaise(ProjectNotFound(group_name))
              /\ UNCHANGED <<tmp, cur>>
         ELSE /\ calls' = calls \o <<Call("subgroups.list", FALSE), Call("groups.get", FALSE),
                                    Call("projects.list", FALSE), Call("projects.get", FALSE)>>
              /\ cur' = pid
              /\ tmp' = [exists |-> TRUE, files |-> "", git |-> NoGit]
              /\ Goto("patch_clone")
              /\ UNCHANGED <<idx, outcome, reported>>
  /\ UNCHANGED <<settings, roster, gl, before, subgroups, projects, fn, listing, args, now,
                 runs, faults>>

\* git.clone_repository of a student project: the branch and the working
\* tree of its tip (an empty tree when nothing was pushed yet).
Clone(proj) ==
  [exists |-> TRUE,
   files |-> IF proj.commits = <<>> THEN "" ELSE proj.commits[Len(proj.commits)].tree,
   git |-> [present |-> TRUE, origin |-> proj.id, commits |-> proj.commits]]

\* repo.apply(diff) succeeds when the diff fits the working tree.
Applies(patch, d) == d.files = patch.from

\* f"Apply patch to assignment for {group_name}"
PatchMessage(group_name) == <<"Apply patch", group_name>>

\* Variant: the patch commit is created with an empty parent list.
CommitPatch_noparent(d, patch, group_name, t) ==
  [d EXCEPT !.files = patch.to,
            !.git.commits = Append(@, Commit(patch.to, <<>>,
                                             _get_git_commit_signature,
                                             _get_git_commit_signature, t,
                                             PatchMessage(group_name)))]

\* Lines 352-357: stage, commit on top of the tip of the branch.
CommitPatch(d, patch, group_name, t) ==
  LET tip == d.git.commits[Len(d.git.commits)]
  IN  [d EXCEPT !.files = patch.to,
                !.git.commits = Append(@, Commit(patch.to, <<Oid(tip)>>,
                                                 _get_git_commit_signature,
                                                 _get_git_commit_signature, t,
                                                 PatchMessage(group_name)))]

\* Lines 342-357: clone, parse and apply the patch, commit.
patch_clone ==
  /\ pc = "patch_clone"
  /\ LET e == _get_auth_info(settings)
         d == Clone(projects[cur])
     IN  IF e # NoErr
         THEN /\ PatchRaise(e) /\ tmp' = ExitScope(tmp)
              /\ UNCHANGED <<calls, now, faults>>
         ELSE /\ calls' = Append(calls, Call("clone", FALSE))
              /\ \/ /\ MayFail /\ faults' = faults + 1
                    /\ PatchRaise(GitError("clone"))
                    /\ tmp' = ExitScope(tmp)
                    /\ UNCHANGED now
                 \/ /\ ~Applies(args.patch, d)
                    /\ PatchReturn(FALSE)
                    /\ tmp' = ExitScope(d)
                    /\ UNCHANGED <<now, faults>>
                 \/ /\ Applies(args.patch, d)
                    /\ \E t \in Ticks :
                         /\ now' = t
                         /\ tmp' = CommitPatch(d, args.patch,
                                               _get_student_groupname(roster[idx]), t)
                    /\ Goto("patch_push")
                    /\ UNCHANGED <<idx, outcome, reported, faults>>
  /\ UNCHANGED <<settings, roster, gl, before, subgroups, projects, fn, listing, cur, args, runs>>

\* Lines 358-360: push the branch, return True.
patch_push ==
  /\ pc = "patch_push"
  /\ LET e == _get_auth_info(settings)
     IN  IF e # NoErr
         THEN /\ PatchRaise(e) /\ tmp' = ExitScope(tmp)
              /\ UNCHANGED <<calls, projects, faults>>
         ELSE /\ calls' = Append(calls, Call("push", FALSE))
              /\ \/ /\ MayFail /\ faults' = faults + 1
                    /\ PatchRaise(GitError("push"))
                    /\ tmp' = ExitScope(tmp)
                    /\ UNCHANGED projects
                 \/ /\ projects' = Push(projects, tmp)
                    /\ PatchReturn(TRUE)
                    /\ tmp' = ExitScope(tmp)
                    /\ UNCHANGED faults
  /\ UNCHANGED <<settings, roster, gl, before, subgroups, fn, listing, cur, args, now, runs>>

Next ==
  \/ connect
  \/ \E a \in AccessLevels : make_student_groups(a)
  \/ msg_create_group
  \/ msg_add_member
  \/ \E p \in TemplatePaths : post_assignment(p)
  \/ post_clone
  \/ post_create
  \/ post_runner
  \/ post_push
  \/ \E p \in TemplatePaths, d \in Patches : patch_assignment(p, d)
  \/ patch_lookup
  \/ patch_clone
  \/ patch_push

Spec == Init /\ [][Next]_vars

\* ==================================================== checked properties
N == Len(roster)

GroupName(i) == _get_student_groupname(roster[i])

\* The assignment project that patch_assignment works on for student i.
StudentProject(i) == FindProject(FindGroup(subgroups, GroupName(i)), args.path)

\* The patch fitted the project of student i as it was when the batch began.
ApplyOk(i) == Applies(args.patch, Clone(before[StudentProject(i)]))

\* A commit was pushed to the project of student i during this batch.
PushedTo(i) ==
  projects[StudentProject(i)].commits # before[StudentProject(i)].commits

FixedSignature == <<"Connor Fuhrman", "connorfuhrman@email.arizona.edu">>

NewProjectIds == (Len(before) + 1)..Len(projects)

CountCalls(c) == Cardinality({i \in 1..Len(calls) : calls[i].call = c})

\* C1: in patch_assignment every student attempted so far got a new commit
\* pushed exactly when the patch applied to their project and is reported as
\* failed exactly when it did not; a batch that returns has attempted every
\* roster student, whatever failed to apply on the way.
C1_PatchOutcomes ==
  fn = "patch_assignment" =>
    /\ \A i \in 1..Len(outcome) :
         /\ PushedTo(i) <=> ApplyOk(i)
         /\ (i \in reported) <=> ~ApplyOk(i)
    /\ reported \subseteq 1..Len(outcome)
    /\ (pc = "done" /\ err = NoErr) => Len(outcome) = N

\* A batch that returned after a student's patch failed and a later
\* student's patch applied.
C1_Witness ==
  /\ fn = "patch_assignment" /\ pc = "done" /\ err = NoErr
  /\ outcome = <<FALSE, TRUE>>

LookupErrors == {"RuntimeError:group", "RuntimeError:project"}

\* C2: patch_assignment does not end on a student's group or project lookup
\* failure while later roster students are still unattempted.
C2_LookupFailureScoped ==
  (fn = "patch_assignment" /\ pc = "done" /\ idx < N) => err.type \notin LookupErrors

\* C3: a post_assignment that returns has created exactly N projects, each
\* with exactly one commit authored and committed by the fixed signature,
\* and the object ids of these commits are pairwise different.
C3_FanOut ==
  (fn = "post_assignment" /\ pc = "done" /\ err = NoErr) =>
    /\ Len(projects) - Len(before) = N
    /\ \A i \in NewProjectIds :
         /\ Len(projects[i].commits) = 1
         /\ projects[i].commits[1].author = FixedSignature
         /\ projects[i].commits[1].committer = FixedSignature
    /\ \A i, j \in NewProjectIds :
         i # j => Oid(projects[i].commits[1]) # Oid(projects[j].commits[1])

\* Two students served within the same second of the clock.
C3_Witness ==
  /\ fn = "post_assignment" /\ pc = "done" /\ err = NoErr
  /\ N = 2 /\ Len(projects) >= 2
  /\ projects[Len(projects)].commits[1].time = projects[Len(projects) - 1].commits[1].time

\* C4: a configuration error is raised before any call to the platform or
\* the git remote, so no project exists that did not exist before.
C4_ConfigErrorBeforeNetwork ==
  (pc = "done" /\ err.type = "ValueError") => (calls = <<>> /\ projects = before)

\* C5: post_assignment with a path that is not in the template group's
\* listing ends with the 'template not found' RuntimeError, and no project,
\* runner attachment, clone or push was made.
C5_TemplateNotFound ==
  (fn = "post_assignment" /\ pc = "done" /\ args.path \notin TemplateListing
     /\ err.type # "ValueError") =>
    /\ err = TemplateNotFound(args.path)
    /\ projects = before
    /\ \A i \in 1..Len(calls) :
         calls[i].call \notin {"projects.create", "runners.create", "clone", "push"}

CreationCalls == {"groups.create", "members.create", "projects.create", "runners.create"}

\* C6: every creation call is issued with retry_transient_errors enabled.
C6_CreationRetry ==
  \A i \in 1..Len(calls) : calls[i].call \in CreationCalls => calls[i].retry

\* C7: a scratch directory exists only inside the with-block that made it:
\* none exists once post_assignment or patch_assignment has ended, nor
\* between two calls of apply_patch_to_assignment.
C7_ScratchDeleted ==
  pc \in {"done", "patch_lookup", "msg_group", "msg_member"} => ~tmp.exists

\* A batch in which one attempt returned False and a later one raised
\* inside the with-block.
C7_Witness ==
  /\ fn = "patch_assignment" /\ pc = "done" /\ err.type = "GitError"
  /\ reported # {}

\* C8: a student is reported as failed only after the loop over the roster
\* has finished.
C8_ReportAfterBatch == reported # {} => pc = "done"

\* The group that the project at hand lives in carries exactly the name
\* derived for the student at hand.
SelectedGroupExact ==
  pc \in {"post_runner", "post_push", "patch_clone", "patch_push"} =>
    \A k \in 1..Len(subgroups) :
      subgroups[k].id = projects[cur].namespace_id => subgroups[k].name = GroupName(idx)

NoGroupNamed(groups, name) == \A k \in 1..Len(groups) : groups[k].name # name

\* C9: a subgroup is selected only when its name equals the derived name;
\* when no subgroup has that name the operation ends with the group-not-found
\* error carrying the name, and no project is created.
C9_ExactGroupMatch ==
  /\ []SelectedGroupExact
  /\ [][ /\ (pc = "post_create" /\ NoGroupNamed(listing, GroupName(idx)))
            => (pc' = "done" /\ err' = GroupNotFound(GroupName(idx)) /\ projects' = projects)
         /\ (pc = "patch_lookup" /\ _get_groups_info(settings) = NoErr
               /\ NoGroupNamed(subgroups, GroupName(idx)))
            => (pc' = "done" /\ err' = GroupNotFound(GroupName(idx)) /\ projects' = projects)
       ]_vars

\* A student without a group while a group with a longer name exists.
C9_Witness ==
  /\ pc = "done" /\ err.type = "RuntimeError:group"
  /\ \E k \in 1..Len(subgroups) :
       IsPrefix(err.about, subgroups[k].name) /\ err.about # subgroups[k].name

\* C10: a second post_assignment for the same template and roster, both runs
\* returning and no patch in between, leaves the first run's N projects as
\* they were, issues N creation requests of its own and ends with 2N
\* projects, each holding a single root commit.
C10_Rerun ==
  (fn = "post_assignment" /\ pc = "done" /\ err = NoErr
     /\ runs["post_assignment"] = 2 /\ okRuns["post_assignment"] = 2
     /\ runs["patch_assignment"] = 0) =>
    /\ Len(before) = N
    /\ SubSeq(projects, 1, N) = before
    /\ CountCalls("projects.create") = N
    /\ Len(projects) = 2 * N
    /\ \A i \in 1..Len(projects) :
         /\ Len(projects[i].commits) = 1
         /\ projects[i].commits[1].parents = <<>>

\* Two students, posted twice.
C10_Witness ==
  /\ fn = "post_assignment" /\ pc = "done" /\ err = NoErr
  /\ runs["post_assignment"] = 2 /\ okRuns["post_assignment"] = 2
  /\ runs["patch_assignment"] = 0
  /\ N = 2

\* A root commit that holds the template's tree as cloned by this run.
IsTemplateRoot(c) == c.parents = <<>> /\ c.tree = TemplateTree(args.path)

\* C11: in post_assignment the repository that is about to be pushed has as
\* origin the project just created for the student at hand and holds one
\* root commit with the template's tree, however many students came before
\* on the same directory; what reaches a student's project is that commit.
C11_RootCommitFromTemplate ==
  fn = "post_assignment" =>
    /\ pc = "post_push" =>
         /\ tmp.files = TemplateTree(args.path)
         /\ tmp.git.present
         /\ tmp.git.origin = cur
         /\ cur = Len(projects)
         /\ tmp.git.origin # TemplateUrl
         /\ Len(tmp.git.commits) = 1
         /\ IsTemplateRoot(tmp.git.commits[1])
    /\ \A i \in NewProjectIds :
         projects[i].commits # <<>> =>
           /\ Len(projects[i].commits) = 1
           /\ IsTemplateRoot(projects[i].commits[1])
           /\ projects[i].commits[1].message
                = <<"Initial commit", args.path, GroupName(i - Len(before))>>

\* The second student's commit is ready on the reused directory, the first
\* student's having been pushed.
C11_Witness ==
  /\ fn = "post_assignment" /\ pc = "post_push" /\ idx = 2
  /\ projects[cur - 1].commits # <<>>

\* The projects of the students for whom this batch returned True.
PatchedProjects == {StudentProject(i) : i \in {j \in 1..Len(outcome) : outcome[j]}}

\* The branch is its earlier history followed by one commit on top of the
\* earlier tip, made with the fixed signature.
OneCommitOnTop(old, new) ==
  /\ old # <<>>
  /\ Len(new) = Len(old) + 1
  /\ SubSeq(new, 1, Len(old)) = old
  /\ new[Len(new)].parents = <<Oid(old[Len(old)])>>
  /\ new[Len(new)].author = FixedSignature
  /\ new[Len(new)].committer = FixedSignature

\* C12: in patch_assignment the branch of a student for whom
\* apply_patch_to_assignment returned True is its history before the batch
\* plus one commit whose only parent is the tip that was cloned, made with
\* the fixed signature; every other project, the one of a student whose call
\* returned False or raised included, is as it was.
C12_PatchFrame ==
  fn = "patch_assignment" =>
    /\ Len(projects) = Len(before)
    /\ \A p \in 1..Len(projects) :
         IF p \in PatchedProjects
         THEN /\ OneCommitOnTop(before[p].commits, projects[p].commits)
              /\ [projects[p] EXCEPT !.commits = <<>>] = [before[p] EXCEPT !.commits = <<>>]
         ELSE projects[p] = before[p]

\* A batch in which one call returned True and a later one raised.
C12_Witness ==
  /\ fn = "patch_assignment" /\ pc = "done" /\ err.type = "GitError"
  /\ \E i \in 1..Len(outcome) : outcome[i]

\* The member that make_student_groups adds to the group of roster row s.
MemberOf(s) == [username |-> s.username, access_level |-> args.access]

\* C13: when make_student_groups has ended, every student group has its
\* private visibility, derived name and slug, the configured parent, and its
\* roster student as a member at the requested access level; a student
\* without a platform user has no group.
C13_GroupsHaveMember ==
  (fn = "make_student_groups" /\ pc = "done") =>
    /\ \A k \in 1..Len(subgroups) :
         \E i \in 1..N :
           /\ subgroups[k].name = GroupName(i)
           /\ subgroups[k].path = _get_student_grouppath(roster[i])
           /\ subgroups[k].visibility = "private"
           /\ subgroups[k].parent_id = StudentGroupId
           /\ MemberOf(roster[i]) \in subgroups[k].members
    /\ \A i \in 1..N :
         roster[i].username \notin PlatformUsers
           => NoGroupNamed(subgroups, GroupName(i))

\* post_assignment ended by an exception raised in the step of student idx.
PostRaisedAt == fn = "post_assignment" /\ pc = "done" /\ err # NoErr /\ idx >= 1

\* The run stopped at student idx: nothing was requested for a later student.
StoppedAtFailure ==
  /\ idx <= N
  /\ Len(projects) - Len(before) \in {idx - 1, idx}
  /\ CountCalls("projects.create") <= idx
  /\ CountCalls("runners.create") <= idx
  /\ CountCalls("push") <= idx

\* The projects of the students before idx hold the one commit pushed for them.
EarlierPushedIntact ==
  \A j \in 1..(idx - 1) :
    LET p == projects[Len(before) + j]
    IN  /\ Len(p.commits) = 1
        /\ p.commits[1].parents = <<>>
        /\ p.commits[1].message = <<"Initial commit", args.path, GroupName(j)>>

\* C14, as stated: when a step of the k-th student raises, the run stops, the
\* first k-1 students' projects stay as pushed, and every project that exists,
\* except those in the k-th student's group, holds exactly one commit.
C14_EveryProjectOneCommit ==
  PostRaisedAt =>
    /\ StoppedAtFailure
    /\ EarlierPushedIntact
    /\ \A p \in 1..Len(projects) :
         projects[p].namespace_id # FindGroup(listing, GroupName(idx))
           => Len(projects[p].commits) = 1

\* C14, amended: when a step of the k-th student raises, the run stops, the
\* first k-1 students' projects stay as pushed, every project created by this
\* run holds exactly one commit except the k-th student's, which holds none,
\* and the projects that existed before the run are as they were.
C14_StopsAtFailure ==
  PostRaisedAt =>
    /\ StoppedAtFailure
    /\ EarlierPushedIntact
    /\ SubSeq(projects, 1, Len(before)) = before
    /\ Len(projects) = Len(before) + idx => projects[Len(projects)].commits = <<>>

\* The run raised at the second student after the first one was pushed.
C14_Witness ==
  /\ PostRaisedAt /\ idx = 2
  /\ Len(projects) > Len(before)
  /\ projects[Len(before) + 1].commits # <<>>
====
